---- MODULE Spec2Model ----
(***************************************************************************)
(* A model of restrip's fetch.py: the run() orchestration loop, the        *)
(* restore/fetch decision, the pagination loop of fetch(), the secret and  *)
(* expression resolvers and the on-disk JSON cache.                        *)
(*                                                                         *)
(* Python values are modelled as tagged records (k is the type tag):       *)
(*   null, int (n), str (s, a sequence of tokens), list (l), dict (d).     *)
(* A string is a sequence of tokens; the magic markers "!jq" and "!secret" *)
(* and the separators " " and "." are tokens of their own.                 *)
(* urljoin() and the request URL do not influence any modelled decision    *)
(* and are kept as an opaque leaf.                                         *)
(***************************************************************************)
EXTENDS Integers, Sequences, FiniteSets, TLC

\* ---------------------------------------------------------------- defines
_MAXAGE_DEF == 86400
_MAXAGE_KEY == "maxage"
_MAGIC_JQ == "!jq"
_MAGIC_SECRET == "!secret"

\* ---------------------------------------------------------------- bounds
MaxRuns == 3      \* process invocations of run()
MaxHttp == 4      \* HTTP requests issued over the whole behaviour

\* ---------------------------------------------------------------- values
EmptyDict == [x \in {} |-> 0]

Null == [k |-> "null", n |-> 0, s |-> <<>>, l |-> <<>>, d |-> EmptyDict]
Num(i) == [k |-> "int", n |-> i, s |-> <<>>, l |-> <<>>, d |-> EmptyDict]
Str(t) == [k |-> "str", n |-> 0, s |-> t, l |-> <<>>, d |-> EmptyDict]
List(e) == [k |-> "list", n |-> 0, s |-> <<>>, l |-> e, d |-> EmptyDict]
Dict(f) == [k |-> "dict", n |-> 0, s |-> <<>>, l |-> <<>>, d |-> f]
\* a raised exception, carried as a poisoned value up to the handler
Raise(what) == [k |-> "raise", n |-> 0, s |-> <<what>>, l |-> <<>>, d |-> EmptyDict]

Word(w) == Str(<<w>>)
IsDict(v) == v.k = "dict"
IsList(v) == v.k = "list"
IsStr(v) == v.k = "str"
IsInt(v) == v.k = "int"
Has(v, key) == IsDict(v) /\ key \in DOMAIN v.d
Get(v, key) == v.d[key]
\* obj[key] = val on a dict
SetItem(v, key, val) == Dict((key :> val) @@ v.d)
\* dict.update(other): other's entries win
Update(v, other) == Dict(other.d @@ v.d)

RECURSIVE Raises(_)
\* does an exception sit anywhere in the value
Raises(v) ==
    \/ v.k = "raise"
    \/ IsDict(v) /\ \E key \in DOMAIN v.d : Raises(v.d[key])
    \/ IsList(v) /\ \E i \in 1..Len(v.l) : Raises(v.l[i])

\* ---------------------------------------------------------------- strings
RECURSIVE LStrip(_)
LStrip(t) == IF t # <<>> /\ Head(t) = " " THEN LStrip(Tail(t)) ELSE t
RECURSIVE RStrip(_)
RStrip(t) == IF t # <<>> /\ t[Len(t)] = " " THEN RStrip(SubSeq(t, 1, Len(t) - 1)) ELSE t
\* str.strip()
Strip(t) == RStrip(LStrip(t))
\* str.replace(marker, "")
Remove(t, marker) == SelectSeq(t, LAMBDA x : x # marker)
\* marker in str
Contains(t, marker) == \E i \in 1..Len(t) : t[i] = marker
\* str.startswith(marker)
StartsWith(t, marker) == t # <<>> /\ Head(t) = marker

RECURSIVE Split(_, _)
\* str.split(sep): the sequence of segments, each a token sequence
Split(t, sep) ==
    IF ~Contains(t, sep) THEN <<t>>
    ELSE LET i == CHOOSE j \in 1..Len(t) : t[j] = sep /\ \A h \in 1..(j - 1) : t[h] # sep
         IN <<SubSeq(t, 1, i - 1)>> \o Split(SubSeq(t, i + 1, Len(t)), sep)

\* operator.getitem(d, key) with a str key
GetItem(v, seg) ==
    IF v.k = "raise" THEN v
    ELSE IF ~IsDict(v) THEN Raise("TypeError")
    ELSE IF Len(seg) = 1 /\ seg[1] \in DOMAIN v.d THEN v.d[seg[1]]
    ELSE Raise("KeyError")

RECURSIVE Reduce(_, _)
Reduce(segs, v) == IF segs = <<>> THEN v ELSE Reduce(Tail(segs), GetItem(v, Head(segs)))

\* find(element, d)
find(element, d) == Reduce(Split(element, "."), d)

\* ---------------------------------------------------------------- jq
\* The query language is the subset the configurations use: a path of
\* object keys (.a.total), optionally followed by the iterator [].
JqKeys(q) == SelectSeq(q, LAMBDA x : x # "." /\ x # "[]")
JqIterates(q) == q # <<>> /\ q[Len(q)] = "[]"

\* .key : null stays null, an object yields the member or null
JqIndex(v, key) ==
    IF v.k = "raise" THEN v
    ELSE IF v.k = "null" THEN Null
    ELSE IF IsDict(v) THEN (IF key \in DOMAIN v.d THEN v.d[key] ELSE Null)
    ELSE Raise("ExpressionError")

RECURSIVE JqPath(_, _)
JqPath(keys, v) == IF keys = <<>> THEN v ELSE JqPath(Tail(keys), JqIndex(v, Head(keys)))

\* jq.all(program, doc): the sequence of results, or <<Raise>> on an error
JqAll(q, doc) ==
    IF ~StartsWith(q, ".") THEN <<Raise("ExpressionError")>>
    ELSE LET v == JqPath(JqKeys(q), doc)
         IN IF ~JqIterates(q) THEN <<v>>
            ELSE IF IsList(v) THEN v.l
            ELSE <<Raise("ExpressionError")>>

\* ---------------------------------------------------------------- resolvers
\* (mutant) the marked leaf is left as it was written
replace_secret_kept(v, secs) == v

\* replace_secret(v) of reveal()
replace_secret(v, secs) ==
    IF IsStr(v) /\ Contains(v.s, _MAGIC_SECRET)
    THEN find(Strip(Remove(v.s, _MAGIC_SECRET)), secs)
    ELSE v

\* (mutant) the result sequence is never unwrapped
eval_jq_all(v, store) ==
    IF IsStr(v) /\ StartsWith(v.s, _MAGIC_JQ)
    THEN List(JqAll(Strip(Tail(v.s)), Dict(store)))
    ELSE v

\* eval_jq(v) of prepare(), reading the global data
eval_jq(v, store) ==
    IF IsStr(v) /\ StartsWith(v.s, _MAGIC_JQ)
    THEN LET r == JqAll(Strip(Tail(v.s)), Dict(store))
         IN IF Len(r) = 1 THEN r[1] ELSE List(r)
    ELSE v

\* f(v) for the two leaf transforms; f carries the transform and what it reads
ApplyLeaf(f, v) ==
    IF f.fn = "eval_jq" THEN eval_jq(v, f.env) ELSE replace_secret(v, f.env)

RECURSIVE map_nested(_, _)
\* the object as map_nested leaves it; a scalar obj leaves `iterator` unbound
map_nested(obj, f) ==
    LET Child(v) == IF IsDict(v) \/ IsList(v) THEN map_nested(v, f) ELSE ApplyLeaf(f, v)
    IN IF IsDict(obj) THEN Dict([key \in DOMAIN obj.d |-> Child(obj.d[key])])
       ELSE IF IsList(obj) THEN List([i \in 1..Len(obj.l) |-> Child(obj.l[i])])
       ELSE Raise("UnboundLocalError")

\* reveal(unit, secrets): the transform runs on a deep copy
reveal(u, secs) == map_nested(u, [fn |-> "replace_secret", env |-> secs])

\* (mutant) the request goes out as the template was written
prepare_raw(req, store) == req

\* prepare(request): the transform runs on a deep copy, against the global data
prepare(req, store) == map_nested(req, [fn |-> "eval_jq", env |-> store])

\* ---------------------------------------------------------------- cache files
\* The text of a cache file: a JSON document whose objects are member lists
\* in sorted key order (json.dump(..., sort_keys=True)).
JNull == [k |-> "null", n |-> 0, s |-> <<>>, l |-> <<>>, m |-> <<>>]
JNum(i) == [k |-> "number", n |-> i, s |-> <<>>, l |-> <<>>, m |-> <<>>]
JStr(t) == [k |-> "string", n |-> 0, s |-> t, l |-> <<>>, m |-> <<>>]
JArr(e) == [k |-> "array", n |-> 0, s |-> <<>>, l |-> e, m |-> <<>>]
JObj(e) == [k |-> "object", n |-> 0, s |-> <<>>, l |-> <<>>, m |-> e]

\* the member names that occur in results, in sorted order
KeyOrder == <<"extra", "items", "total">>
SortedKeys(S) == SelectSeq(KeyOrder, LAMBDA x : x \in S)

\* (mutant) only numbers and objects are written
json_dump_flat(v) ==
    IF IsDict(v) THEN
        LET ks == SortedKeys(DOMAIN v.d)
        IN JObj([i \in 1..Len(ks) |->
                [key |-> ks[i],
                 val |-> IF IsInt(v.d[ks[i]]) THEN JNum(v.d[ks[i]].n) ELSE JNull]])
    ELSE IF IsInt(v) THEN JNum(v.n)
    ELSE JNull

RECURSIVE json_dump(_)
\* json.dump(response, fd, indent=4, sort_keys=True)
json_dump(v) ==
    IF IsDict(v) THEN
        LET ks == SortedKeys(DOMAIN v.d)
        IN JObj([i \in 1..Len(ks) |-> [key |-> ks[i], val |-> json_dump(v.d[ks[i]])]])
    ELSE IF IsList(v) THEN JArr([i \in 1..Len(v.l) |-> json_dump(v.l[i])])
    ELSE IF IsInt(v) THEN JNum(v.n)
    ELSE IF IsStr(v) THEN JStr(v.s)
    ELSE JNull

RECURSIVE json_load(_)
\* json.load(fd): a later member of the same name wins
json_load(j) ==
    IF j.k = "object" THEN
        Dict([key \in {j.m[i].key : i \in 1..Len(j.m)} |->
                json_load(j.m[CHOOSE i \in 1..Len(j.m) :
                    j.m[i].key = key /\ \A h \in (i + 1)..Len(j.m) : j.m[h].key # key].val)])
    ELSE IF j.k = "array" THEN List([i \in 1..Len(j.l) |-> json_load(j.l[i])])
    ELSE IF j.k = "number" THEN Num(j.n)
    ELSE IF j.k = "string" THEN Str(j.s)
    ELSE Null

\* ---------------------------------------------------------------- configuration
\* "!jq <query>" and "!secret <path>" leaves
Jq(q) == Str(<<_MAGIC_JQ, " ">> \o q)
Secret(path) == Str(<<_MAGIC_SECRET, " ">> \o path)

\* load_secrets(): the secrets file {a: {b: "X"}}
Secrets == Dict("a" :> Dict("b" :> Word("X")))

\* the unit files, in the order os.listdir() yields them
Units == <<"u1", "u2">>
UnitNames == {Units[i] : i \in 1..Len(Units)}
ActionIds == {"a", "b"}

\* action.<id>.paginate; inc = Null leaves the increment out
Pag(inc, max) ==
    Dict((IF inc = Null THEN EmptyDict ELSE ("increment" :> inc))
         @@ ("param" :> Word("page")) @@ ("merge" :> Word("items")) @@ ("max" :> max))

TotalOfA == Jq(<<".", "a", ".", "total">>)
ItemsOfA == Jq(<<".", "a", ".", "items", "[]">>)

\* the pagination specs tried for action a of u1 (Null: not paginated)
PagSpecs == {Null, Pag(Null, Num(2)), Pag(Num(2), Num(3)), Pag(Num(1), TotalOfA),
             Pag(Num(0), TotalOfA), Pag(Num(-1), Num(1))}
\* the maxage tried for action a of u1 (Null: absent)
MaxAges == {Null, Num(1)}
\* the shapes of the second unit file
Seconds == {"ok", "nosecret", "badflow"}
Configs ==
    [pag : PagSpecs, maxage : {Null}, second : {"ok"}]
    \cup [pag : {Null, Pag(Null, Num(2))}, maxage : {Num(1)}, second : {"ok"}]
    \cup [pag : {Null, Pag(Null, Num(2))}, maxage : {Null}, second : {"nosecret", "badflow"}]

Opt(key, v) == IF v = Null THEN EmptyDict ELSE (key :> v)

\* toml.load(fd) of a unit file under configuration c
UnitFile(name, c) ==
    IF name = "u1" THEN
        Dict(("api" :> Dict(
                ("base" :> Word("http://h/"))
             @@ ("params" :> Dict(("key" :> Secret(<<"a", ".", "b">>)) @@ ("q" :> Num(0))))
             @@ ("flow" :> List(<<Word("a"), Word("b")>>))))
          @@ ("action" :> Dict(
                ("a" :> Dict(
                    ("method" :> Word("get")) @@ ("endpoint" :> Word("items"))
                 @@ ("params" :> Dict(("q" :> Num(1)) @@ ("cur" :> TotalOfA)))
                 @@ Opt("paginate", c.pag) @@ Opt(_MAXAGE_KEY, c.maxage)))
             @@ ("b" :> Dict(
                    ("method" :> Word("post")) @@ ("endpoint" :> Word("sum"))
                 @@ ("headers" :> Dict("x-n" :> TotalOfA))
                 @@ ("json" :> Dict("ids" :> ItemsOfA)))))))
    ELSE
        Dict(("api" :> Dict(
                ("base" :> Word("http://g/"))
             @@ ("headers" :> Dict("auth" :>
                    Secret(IF c.second = "nosecret" THEN <<"a", ".", "c">> ELSE <<"a", ".", "b">>)))
             @@ ("flow" :> List(IF c.second = "badflow"
                                THEN <<Word("b"), Word("z")>> ELSE <<Word("b")>>))))
          @@ ("action" :> Dict(
                ("b" :> Dict(
                    ("method" :> Word("get")) @@ ("endpoint" :> Word("n"))
                 @@ ("params" :> Dict("n" :> TotalOfA)))))))

\* load_unit(filepath): the default headers
load_unit(name, c) ==
    LET u == UnitFile(name, c)
    IN IF Has(Get(u, "api"), "headers") THEN u
       ELSE SetItem(u, "api",
                SetItem(Get(u, "api"), "headers",
                    Dict("content-type" :> Word("application/json"))))

\* response.json() of the successful responses an endpoint gives, and the
\* failed response
Responses(endpoint) ==
    IF endpoint = Word("items")
    THEN {Dict(("items" :> List(<<Num(1), Num(2)>>)) @@ ("total" :> Num(2))),
          Dict(("items" :> List(<<Num(3), Num(4)>>)) @@ ("total" :> Num(2))),
          Dict(("items" :> List(<<Num(5)>>)) @@ ("total" :> Num(0)) @@ ("extra" :> Num(9))),
          Dict(EmptyDict)}
    ELSE {Dict("total" :> Num(7)), Dict(EmptyDict)}
HttpError == Raise("HTTPStatusError")

\* the time that passes between two runs; a run itself is taken to be short
\* against every maxage, so time.time() is the same at each of its cache checks.
\* The values are a maxage of 1 exactly, and the default maxage exactly and
\* exceeded; two runs 1 apart exceed a maxage of 1 between them.
Elapsed == {1, _MAXAGE_DEF, _MAXAGE_DEF + 1}

\* ---------------------------------------------------------------- state
VARIABLES
    cfg,         \* the configuration on disk (never written by the program)
    run,         \* the number of the current process invocation
    now,         \* time.time()
    http,        \* HTTP requests issued so far
    pc,          \* "load", "check", "fetch", "save", "finished", "aborted"
    uidx,        \* position of init()'s generator in Units
    idx,         \* position in the flow of the current unit
    unit,        \* the revealed unit yielded by init()
    data,        \* the global data
    cache,       \* the files under data/<unit>/<action>.json
    request,     \* fetch(): request
    page_index,  \* fetch(): page_index
    error,       \* the exception that ended the run, "" while there is none
    log,         \* history of this run: one entry per action executed
    sent,        \* history of the current fetch(): the requests as sent
    pages,       \* history of the current fetch(): the results received
    origin       \* history: the data entry that was committed when a file was written

vars == <<cfg, run, now, http, pc, uidx, idx, unit, data, cache, request,
          page_index, error, log, sent, pages, origin>>

NoFile == [exists |-> FALSE, content |-> JNull, mtime |-> 0]
File(content, t) == [exists |-> TRUE, content |-> content, mtime |-> t]

KeyOf(v) == v.s[1]

\* run(): the names bound inside the loops
name == Units[uidx]
actions == Get(Get(unit, "api"), "flow").l
action_id == KeyOf(actions[idx])
action == Get(Get(unit, "action"), action_id)
outfile == <<name, action_id>>
max_age == IF Has(action, _MAXAGE_KEY) THEN Get(action, _MAXAGE_KEY).n ELSE _MAXAGE_DEF
cache_age == now - cache[outfile].mtime

\* (mutant) the boundary age counts as stale
Fresh_strict == cache[outfile].exists /\ cache_age < max_age

\* os.path.isfile(outfile) and cache_age <= max_age
Fresh == cache[outfile].exists /\ cache_age <= max_age

\* the for loops move on: the next action, or back into init()'s generator
NextPc == IF idx < Len(actions) THEN "check" ELSE "load"
NextIdx == IF idx < Len(actions) THEN idx + 1 ELSE 1
NextUidx == IF idx < Len(actions) THEN uidx ELSE uidx + 1

Entry(path) ==
    [u |-> name, x |-> action_id, path |-> path, existed |-> cache[outfile].exists,
     age |-> IF cache[outfile].exists THEN cache_age ELSE 0,
     reqs |-> 0, writes |-> 0, wrote |-> FALSE, done |-> FALSE, committed |-> Null]
Last(q) == q[Len(q)]
SetLast(q, e) == [q EXCEPT ![Len(q)] = e]

Init ==
    /\ cfg \in Configs
    /\ run = 1 /\ now = 0 /\ http = 0
    /\ pc = "load" /\ uidx = 1 /\ idx = 1
    /\ unit = Null /\ data = EmptyDict
    /\ cache = [f \in UnitNames \X ActionIds |-> NoFile]
    /\ request = Null /\ page_index = 0 /\ error = ""
    /\ log = <<>> /\ sent = <<>> /\ pages = <<>>
    /\ origin = [f \in UnitNames \X ActionIds |-> Null]

\* ---------------------------------------------------------------- init()
\* the generator yields the next unit, revealed
LoadUnit ==
    /\ pc = "load" /\ uidx <= Len(Units)
    /\ \E revealed \in {reveal(load_unit(Units[uidx], cfg), Secrets)} :
          /\ ~Raises(revealed)
          /\ unit' = revealed
    /\ pc' = "check" /\ idx' = 1
    /\ UNCHANGED <<cfg, run, now, http, uidx, data, cache, request, page_index,
                   error, log, sent, pages, origin>>

\* find() raises inside reveal(): the exception leaves run()
LoadRaise ==
    /\ pc = "load" /\ uidx <= Len(Units)
    /\ Raises(reveal(load_unit(Units[uidx], cfg), Secrets))
    /\ pc' = "aborted" /\ error' = "KeyError"
    /\ UNCHANGED <<cfg, run, now, http, uidx, idx, unit, data, cache, request,
                   page_index, log, sent, pages, origin>>

\* the generator is exhausted: run() returns
RunEnd ==
    /\ pc = "load" /\ uidx > Len(Units)
    /\ pc' = "finished"
    /\ UNCHANGED <<cfg, run, now, http, uidx, idx, unit, data, cache, request,
                   page_index, error, log, sent, pages, origin>>

\* ---------------------------------------------------------------- run()
Known == Has(Get(unit, "action"), action_id)

\* unit["action"][action_id] of a flow entry that names no action
FlowRaise ==
    /\ pc = "check" /\ ~Known
    /\ pc' = "aborted" /\ error' = "KeyError"
    /\ UNCHANGED <<cfg, run, now, http, uidx, idx, unit, data, cache, request,
                   page_index, log, sent, pages, origin>>

\* (mutant) data is replaced by the restored entry alone
restore_alone(store, id, file) == (id :> json_load(file.content))

\* restore(name, cachefile): data[name] = json.load(fd)
restore(store, id, file) == (id :> json_load(file.content)) @@ store

\* (mutant) restoring rewrites the file, which gives it a new modification time
Restore_touch ==
    /\ pc = "check" /\ Known /\ Fresh
    /\ data' = restore(data, action_id, cache[outfile])
    /\ cache' = [cache EXCEPT ![outfile] = File(cache[outfile].content, now)]
    /\ log' = Append(log, [Entry("restore") EXCEPT !.writes = 1, !.done = TRUE,
                                                   !.committed = data'[action_id]])
    /\ pc' = NextPc /\ idx' = NextIdx /\ uidx' = NextUidx
    /\ UNCHANGED <<cfg, run, now, http, unit, request, page_index, error,
                   sent, pages, origin>>

\* the cache file is fresh: restore and continue
Restore ==
    /\ pc = "check" /\ Known /\ Fresh
    /\ data' = restore(data, action_id, cache[outfile])
    /\ log' = Append(log, [Entry("restore") EXCEPT !.writes = 1, !.done = TRUE,
                                                   !.committed = data'[action_id]])
    /\ pc' = NextPc /\ idx' = NextIdx /\ uidx' = NextUidx
    /\ UNCHANGED <<cfg, run, now, http, unit, cache, request, page_index, error,
                   sent, pages, origin>>

\* fetch(), "Construct request": request["params"] and request["headers"] ARE
\* api["params"] and api["headers"], so update() writes into the unit's api
Construct(api, act, field) ==
    IF Has(api, field)
    THEN LET m == IF Has(act, field) THEN Update(Get(api, field), Get(act, field))
                  ELSE Get(api, field)
         IN [req |-> (field :> m), api |-> SetItem(api, field, m)]
    ELSE IF Has(act, field)
    THEN [req |-> (field :> Update(Dict(EmptyDict), Get(act, field))), api |-> api]
    ELSE [req |-> EmptyDict, api |-> api]

\* no fresh cache file: fetch() is entered and builds the request
FetchBegin ==
    /\ pc = "check" /\ Known /\ ~Fresh
    /\ LET api == Get(unit, "api")
           p == Construct(api, action, "params")
           h == Construct(p.api, action, "headers")
           url == Str(Get(api, "base").s \o Get(action, "endpoint").s)
       IN /\ request' = Dict(("url" :> url) @@ p.req @@ h.req
                             @@ (IF Has(action, "json") THEN ("json" :> Get(action, "json"))
                                 ELSE EmptyDict))
          /\ unit' = SetItem(unit, "api", h.api)
    /\ page_index' = 0
    /\ log' = Append(log, Entry("fetch"))
    /\ sent' = <<>> /\ pages' = <<>>
    /\ pc' = "fetch"
    /\ UNCHANGED <<cfg, run, now, http, uidx, idx, data, cache, error, origin>>

\* what one pass of the loop leaves behind; sent is the request as it was sent
Outcome(err, req, store, pi, brk, issued, writes) ==
    [err |-> err, request |-> req, data |-> store, page_index |-> pi, brk |-> brk,
     issued |-> issued, writes |-> writes, sent |-> Null]

\* (mutant) the first page after page 0 is not merged
Merging_late(pi) == pi > 1

\* if page_index > 0: the page is merged into data[name]
Merging(pi) == pi > 0

\* (mutant) the new page's list is put in front of the accumulated one
MergePage_swapped(acc, result, merge) ==
    Update(acc, SetItem(result, merge, List(Get(result, merge).l \o Get(acc, merge).l)))

\* result[merge] = data[name][merge] + result[merge]; data[name].update(result)
MergePage(acc, result, merge) ==
    Update(acc, SetItem(result, merge, List(Get(acc, merge).l \o Get(result, merge).l)))

\* (mutant) the loop stops one page late
Stop_late(pi, max) == pi > max

\* if page_index >= pagination["max"]: break
Stop(pi, max) == pi >= max

\* (mutant) the pagination spec is resolved on data as the pass found it
Pagination_stale(store) == prepare(Get(action, "paginate"), data)

\* pagination = prepare(action["paginate"]), after page 0 was put into data
Pagination(store) == prepare(Get(action, "paginate"), store)

\* fetch(), "Handle pagination" with a pagination spec, after data[name] was set
Paginate(prepared, result, store, writes) ==
    LET pagination == Pagination(store)
        merge == KeyOf(Get(pagination, "merge"))
        acc == store[action_id]
        merging == Merging(page_index)
        mergeErr ==
            IF ~merging THEN ""
            ELSE IF ~Has(acc, merge) \/ ~Has(result, merge) THEN "KeyError"
            ELSE IF ~IsList(Get(acc, merge)) \/ ~IsList(Get(result, merge)) THEN "TypeError"
            ELSE ""
        store2 == IF merging THEN (action_id :> MergePage(acc, result, merge)) @@ store
                  ELSE store
        writes2 == IF merging THEN writes + 1 ELSE writes
        inc == IF Has(pagination, "increment") THEN Get(pagination, "increment") ELSE Num(1)
        pi == page_index + inc.n
        max == Get(pagination, "max")
        params == IF Has(prepared, "params") THEN Get(prepared, "params") ELSE Dict(EmptyDict)
    IN IF Raises(pagination)
       THEN Outcome("ExpressionError", prepared, store, page_index, FALSE, TRUE, writes)
       ELSE IF mergeErr # ""
       THEN Outcome(mergeErr, prepared, store, page_index, FALSE, TRUE, writes)
       ELSE IF ~IsInt(inc)
       THEN Outcome("TypeError", prepared, store2, page_index, FALSE, TRUE, writes2)
       ELSE IF ~IsInt(max)
       THEN Outcome("TypeError", prepared, store2, pi, FALSE, TRUE, writes2)
       ELSE IF Stop(pi, max.n)
       THEN Outcome("", prepared, store2, pi, TRUE, TRUE, writes2)
       ELSE Outcome("", SetItem(prepared, "params",
                                SetItem(params, KeyOf(Get(pagination, "param")), Num(pi))),
                    store2, pi, FALSE, TRUE, writes2)

\* fetch(): one pass of the while loop, given the response of the server
LoopBody(resp) ==
    LET prepared == prepare(request, data)
        store == IF page_index = 0 THEN (action_id :> resp) @@ data ELSE data
        writes == IF page_index = 0 THEN 1 ELSE 0
    IN IF Raises(prepared)
       THEN Outcome("ExpressionError", request, data, page_index, FALSE, FALSE, 0)
       ELSE IF Get(action, "method") # Word("post") /\ Has(prepared, "json")
       THEN Outcome("TypeError", prepared, data, page_index, FALSE, FALSE, 0)
       ELSE IF resp = HttpError
       THEN Outcome("HTTPStatusError", prepared, data, page_index, FALSE, TRUE, 0)
       ELSE IF ~Has(action, "paginate")
       THEN Outcome("", prepared, store, page_index, TRUE, TRUE, writes)
       ELSE Paginate(prepared, resp, store, writes)

\* the pass, with the request that went out
LoopPass(resp) ==
    [LoopBody(resp) EXCEPT !.sent = prepare(request, data)]

Count(o) == [Last(log) EXCEPT !.reqs = @ + (IF o.issued THEN 1 ELSE 0),
                              !.writes = @ + o.writes]

\* (mutant) every page received is written to the cache file at once
FetchPage_checkpoint ==
    /\ pc = "fetch"
    /\ \E resp \in Responses(Get(action, "endpoint")) :
        \E o \in {LoopPass(resp)} :
           /\ o.err = ""
           /\ http < MaxHttp
           /\ request' = o.request /\ data' = o.data /\ page_index' = o.page_index
           /\ pc' = IF o.brk THEN "save" ELSE "fetch"
           /\ http' = http + 1
           /\ sent' = Append(sent, o.sent)
           /\ pages' = Append(pages, resp)
           /\ log' = SetLast(log, Count(o))
           /\ cache' = [cache EXCEPT ![outfile] = File(json_dump(o.data[action_id]), now)]
    /\ UNCHANGED <<cfg, run, now, uidx, idx, unit, error, origin>>

\* one pass of the loop that raises nothing
FetchPage ==
    /\ pc = "fetch"
    /\ \E resp \in Responses(Get(action, "endpoint")) :
        \E o \in {LoopPass(resp)} :
           /\ o.err = ""
           /\ http < MaxHttp
           /\ request' = o.request /\ data' = o.data /\ page_index' = o.page_index
           /\ pc' = IF o.brk THEN "save" ELSE "fetch"
           /\ http' = http + 1
           /\ sent' = Append(sent, o.sent)
           /\ pages' = Append(pages, resp)
           /\ log' = SetLast(log, Count(o))
    /\ UNCHANGED <<cfg, run, now, uidx, idx, unit, cache, error, origin>>

\* (mutant) the exception is swallowed and the flow goes on with the next action
FetchRaise_skip ==
    /\ pc = "fetch"
    /\ \E resp \in Responses(Get(action, "endpoint")) \cup {HttpError} :
        \E o \in {LoopPass(resp)} :
           /\ o.err # ""
           /\ o.issued => http < MaxHttp
           /\ request' = o.request /\ data' = o.data /\ page_index' = o.page_index
           /\ http' = IF o.issued THEN http + 1 ELSE http
           /\ sent' = IF o.issued THEN Append(sent, o.sent) ELSE sent
           /\ log' = SetLast(log, Count(o))
           /\ error' = o.err
    /\ pc' = NextPc /\ idx' = NextIdx /\ uidx' = NextUidx
    /\ UNCHANGED <<cfg, run, now, unit, cache, pages, origin>>

\* one pass of the loop that raises: the exception leaves fetch() and run()
FetchRaise ==
    /\ pc = "fetch"
    /\ \E resp \in Responses(Get(action, "endpoint")) \cup {HttpError} :
        \E o \in {LoopPass(resp)} :
           /\ o.err # ""
           /\ o.issued => http < MaxHttp
           /\ request' = o.request /\ data' = o.data /\ page_index' = o.page_index
           /\ http' = IF o.issued THEN http + 1 ELSE http
           /\ sent' = IF o.issued THEN Append(sent, o.sent) ELSE sent
           /\ log' = SetLast(log, Count(o))
           /\ error' = o.err
    /\ pc' = "aborted"
    /\ UNCHANGED <<cfg, run, now, uidx, idx, unit, cache, pages, origin>>

\* (mutant) fetch() returns the result of the last request
response_last == Last(pages)

\* fetch(): return data[name]
response == data[action_id]

\* "Save results as a static json file": response is what fetch() returned
Save ==
    /\ pc = "save"
    /\ cache' = [cache EXCEPT ![outfile] = File(json_dump(response), now)]
    /\ origin' = [origin EXCEPT ![outfile] = data[action_id]]
    /\ log' = SetLast(log, [Last(log) EXCEPT !.wrote = TRUE, !.done = TRUE,
                                             !.committed = data[action_id]])
    /\ request' = Null /\ page_index' = 0 /\ sent' = <<>> /\ pages' = <<>>
    /\ pc' = NextPc /\ idx' = NextIdx /\ uidx' = NextUidx
    /\ UNCHANGED <<cfg, run, now, http, unit, data, error>>

\* os.makedirs() or open() raises: nothing is written
SaveRaise ==
    /\ pc = "save"
    /\ pc' = "aborted" /\ error' = "OSError"
    /\ UNCHANGED <<cfg, run, now, http, uidx, idx, unit, data, cache, request,
                   page_index, log, sent, pages, origin>>

\* ---------------------------------------------------------------- environment
\* the program is started again after some time: a new process, the same disk
NewRun ==
    /\ pc \in {"finished", "aborted"} /\ run < MaxRuns
    /\ run' = run + 1
    /\ \E d \in Elapsed : now' = now + d
    /\ pc' = "load" /\ uidx' = 1 /\ idx' = 1
    /\ unit' = Null /\ data' = EmptyDict
    /\ request' = Null /\ page_index' = 0 /\ error' = ""
    /\ log' = <<>> /\ sent' = <<>> /\ pages' = <<>>
    /\ UNCHANGED <<cfg, http, cache, origin>>

Next ==
    \/ LoadUnit \/ LoadRaise \/ RunEnd
    \/ FlowRaise \/ Restore \/ FetchBegin
    \/ FetchPage \/ FetchRaise
    \/ Save \/ SaveRaise
    \/ NewRun

Spec == Init /\ [][Next]_vars

\* ---------------------------------------------------------------- the walker alone
\* reveal() and prepare() applied to values of every shape: request is the
\* value passed in, data is what the expressions read, unit receives what
\* reveal() returns and sent what prepare() returns.
WalkLeaves ==
    {Num(3), Word("x"), Null, TotalOfA, ItemsOfA,
     Str(<<"x", " ", _MAGIC_JQ, " ", ".", "a">>),
     Secret(<<"a", ".", "b">>), Secret(<<"a", ".", "c">>)}
InDict(v) == Dict("p" :> v)
InList(v) == List(<<v>>)
Nested(v) == Dict("p" :> List(<<v, Dict("q" :> v)>>))
WalkInputs ==
    WalkLeaves \cup {InDict(v) : v \in WalkLeaves} \cup {InList(v) : v \in WalkLeaves}
    \cup {Nested(v) : v \in WalkLeaves} \cup {Dict(EmptyDict), List(<<>>)}
WalkStores ==
    {"a" :> Dict(("items" :> List(<<>>)) @@ ("total" :> Num(2))),
     "a" :> Dict(("items" :> List(<<Num(5)>>)) @@ ("total" :> Num(0))),
     "a" :> Dict(("items" :> List(<<Num(1), Num(2)>>)) @@ ("total" :> List(<<Num(7), Num(8)>>))),
     "a" :> Dict(("items" :> List(<<List(<<Num(9)>>)>>)) @@ ("total" :> Null))}

WalkInit ==
    /\ request \in WalkInputs /\ data \in WalkStores
    /\ pc = "walk" /\ unit = Null /\ sent = <<>>
    /\ cfg = [pag |-> Null, maxage |-> Null, second |-> "ok"]
    /\ run = 1 /\ now = 0 /\ http = 0 /\ uidx = 1 /\ idx = 1
    /\ cache = [f \in UnitNames \X ActionIds |-> NoFile]
    /\ page_index = 0 /\ error = "" /\ log = <<>> /\ pages = <<>>
    /\ origin = [f \in UnitNames \X ActionIds |-> Null]

\* revealed = deepcopy(unit); map_nested(revealed, replace_secret): the value
\* passed in stays as it is
WalkReveal ==
    /\ pc = "walk"
    /\ unit' = reveal(request, Secrets)
    /\ pc' = "revealed"
    /\ UNCHANGED <<cfg, run, now, http, uidx, idx, data, cache, request, page_index,
                   error, log, sent, pages, origin>>

\* prepared = deepcopy(request); map_nested(prepared, eval_jq)
WalkPrepare ==
    /\ pc = "walk"
    /\ sent' = <<prepare(request, data)>>
    /\ pc' = "prepared"
    /\ UNCHANGED <<cfg, run, now, http, uidx, idx, unit, data, cache, request,
                   page_index, error, log, pages, origin>>

WalkNext == WalkReveal \/ WalkPrepare

WalkSpec == WalkInit /\ [][WalkNext]_vars

\* ================================================================ properties
\* what the configuration files say, independently of the running program
FileAction(u, x) == Get(Get(UnitFile(u, cfg), "action"), x)
FileFlow(u) == Get(Get(UnitFile(u, cfg), "api"), "flow").l
Threshold(u, x) ==
    IF Has(FileAction(u, x), "maxage") THEN Get(FileAction(u, x), "maxage").n ELSE 86400
InFetch == pc \in {"fetch", "save"}
IsExpr(v) == IsStr(v) /\ StartsWith(v.s, "!jq")
\* the action-id an expression leaf reads
RefOf(v) == JqKeys(Strip(Tail(v.s)))[1]
Sections == {"params", "headers", "json"}

\* C1: every action executed took the restore path, without any HTTP request,
\* exactly when its cache file existed with age T <= M (M the action's maxage,
\* 86400 when absent); otherwise (older file, or no file) it took the fetch
\* path. T = M restores.
CacheFreshness ==
    \A i \in 1..Len(log) :
        IF log[i].existed /\ log[i].age <= Threshold(log[i].u, log[i].x)
        THEN log[i].path = "restore" /\ log[i].reqs = 0
        ELSE log[i].path = "fetch"

\* C1 witness: an action restored at the boundary T = M, after another one
\* that was fetched because its file was older than its maxage
CacheFreshnessWitness ==
    /\ \E i \in 1..Len(log) :
        log[i].path = "restore" /\ log[i].age = Threshold(log[i].u, log[i].x)
    /\ \E i \in 1..Len(log) :
        log[i].path = "fetch" /\ log[i].existed

\* the entries of this run that belong to the unit being executed and are complete
DoneHere == {i \in 1..Len(log) : log[i].u = name /\ log[i].done}
\* what each completed action of the unit committed, as recorded when it completed
Committed ==
    [x \in {log[i].x : i \in DoneHere} |->
        log[CHOOSE i \in DoneHere : log[i].x = x].committed]
\* the k-th action executed in a unit is the k-th entry of its flow, and it is
\* complete before the next one starts
InFlowOrder ==
    \A i \in 1..Len(log) :
        LET k == Cardinality({j \in 1..i : log[j].u = log[i].u})
        IN /\ k <= Len(FileFlow(log[i].u))
           /\ log[i].x = KeyOf(FileFlow(log[i].u)[k])
           /\ i < Len(log) => log[i].done
           /\ i > 1 => \/ log[i - 1].u = log[i].u
                       \/ k = 1 /\ Cardinality({j \in 1..(i-1) : log[j].u = log[i-1].u})
                                    = Len(FileFlow(log[i - 1].u))

\* C2: actions start in flow order, one unit at a time, each committed before
\* the next starts; and every request an action B sends carries, for each
\* expression of B's template that reads an action A completed earlier in the
\* flow, the value the expression has on what A committed when it completed.
FlowOrdering ==
    /\ InFlowOrder
    /\ InFetch =>
        \A sec \in Sections : Has(action, sec) =>
            \A key \in DOMAIN Get(action, sec).d :
                LET leaf == Get(action, sec).d[key]
                IN (IsExpr(leaf) /\ RefOf(leaf) # action_id /\ RefOf(leaf) \in DOMAIN Committed)
                   => \A i \in 1..Len(sent) :
                        Get(Get(sent[i], sec), key) = eval_jq(leaf, Committed)

\* C2 witness: b, second in u1's flow, has sent a request that reads a's result
FlowOrderingWitness ==
    /\ InFetch /\ name = "u1" /\ action_id = "b" /\ Len(sent) = 1
    /\ Get(Get(sent[1], "headers"), "x-n") \in {Num(2), Num(0)}
    /\ Len(Get(Get(sent[1], "json"), "ids").l) = 2

\* the pagination spec of the action in fetch(), as the unit holds it
PagOf == Get(action, "paginate")
MergeKey == KeyOf(Get(PagOf, "merge"))
PageParam == KeyOf(Get(PagOf, "param"))
IncOf == IF Has(PagOf, "increment") THEN Get(PagOf, "increment").n ELSE 1
PositiveIncrement ==
    ~Has(PagOf, "increment") \/ (IsInt(Get(PagOf, "increment")) /\ IncOf >= 1)

RECURSIVE Concat(_, _)
\* p0[m] + p1[m] + ... in page order
Concat(ps, m) == IF ps = <<>> THEN <<>> ELSE Get(Head(ps), m).l \o Concat(Tail(ps), m)
Fields(ps) == UNION {DOMAIN ps[i].d : i \in 1..Len(ps)}
\* the latest page that contains field f
LatestWith(ps, f) ==
    CHOOSE i \in 1..Len(ps) :
        f \in DOMAIN ps[i].d /\ \A j \in (i + 1)..Len(ps) : f \notin DOMAIN ps[j].d
\* the committed value is the pages merged on m: the lists concatenated in page
\* order, every other field from the latest page that has it
MergedPages(v, ps, m) ==
    /\ IsDict(v) /\ DOMAIN v.d = Fields(ps)
    /\ Get(v, m) = List(Concat(ps, m))
    /\ \A f \in Fields(ps) \ {m} : Get(v, f) = Get(ps[LatestWith(ps, f)], f)
AllPagesHave(ps, m) == \A i \in 1..Len(ps) : Has(ps[i], m) /\ IsList(Get(ps[i], m))

\* C3 as stated: whenever a paginated fetch has ended after n >= 1 successful
\* pages, data holds the pages merged on the merge key (lists concatenated in
\* page order, other fields from the latest page that has them).
PaginationMergeAnyIncrement ==
    (pc = "save" /\ Has(action, "paginate") /\ AllPagesHave(pages, MergeKey))
        => MergedPages(data[action_id], pages, MergeKey)

\* C3 amended: the same, for a pagination spec whose increment is at least 1
\* (or absent, which means 1).
PaginationMerge ==
    (pc = "save" /\ Has(action, "paginate") /\ PositiveIncrement
        /\ AllPagesHave(pages, MergeKey))
        => MergedPages(data[action_id], pages, MergeKey)

\* C3 witness: the two pages {items:[1,2], total:2} and {items:[3,4], total:2}
\* were fetched and data holds {items:[1,2,3,4], total:2}
PaginationMergeWitness ==
    /\ pc = "save" /\ Has(action, "paginate") /\ PositiveIncrement
    /\ pages = <<Dict(("items" :> List(<<Num(1), Num(2)>>)) @@ ("total" :> Num(2))),
                 Dict(("items" :> List(<<Num(3), Num(4)>>)) @@ ("total" :> Num(2)))>>
    /\ data[action_id] = Dict(("items" :> List(<<Num(1), Num(2), Num(3), Num(4)>>))
                              @@ ("total" :> Num(2)))

\* increment >= 1 (or absent) and max >= 1, both written as numbers
LiteralBounds ==
    /\ Has(action, "paginate") /\ PositiveIncrement
    /\ IsInt(Get(PagOf, "max")) /\ Get(PagOf, "max").n >= 1
Ceil(m, i) == (m + i - 1) \div i

\* C4: a fetch with increment i >= 1 and max m >= 1 never issues more than
\* ceil(m / i) requests and has issued exactly that many when it ends; the first
\* request carries no page parameter and the k-th later one carries k * i, which
\* is below max. A fetch without pagination spec issues exactly one request.
RequestCount ==
    InFetch =>
        IF ~Has(action, "paginate")
        THEN Len(sent) <= 1 /\ (pc = "save" => Len(sent) = 1)
        ELSE LiteralBounds =>
            /\ Len(sent) <= Ceil(Get(PagOf, "max").n, IncOf)
            /\ pc = "save" => Len(sent) = Ceil(Get(PagOf, "max").n, IncOf)
            /\ Len(sent) >= 1 =>
                ~(Has(sent[1], "params") /\ Has(Get(sent[1], "params"), PageParam))
            /\ \A k \in 1..(Len(sent) - 1) :
                /\ Get(Get(sent[k + 1], "params"), PageParam) = Num(k * IncOf)
                /\ k * IncOf < Get(PagOf, "max").n

\* C4 witness: increment absent, max 2: the fetch ended after two requests
RequestCountWitness ==
    /\ pc = "save" /\ LiteralBounds /\ ~Has(PagOf, "increment")
    /\ Get(PagOf, "max") = Num(2) /\ Len(sent) = 2

\* C5 as stated: every request of a fetch carries, for each expression of the
\* action's params, headers and body, the value of that expression on data as
\* it is when the request is prepared.
ExpressionsReResolved ==
    [][(pc = "fetch" /\ Len(sent') = Len(sent) + 1) =>
        \A sec \in Sections : Has(action, sec) =>
            \A key \in DOMAIN Get(action, sec).d :
                IsExpr(Get(action, sec).d[key]) =>
                    Get(Get(sent'[Len(sent')], sec), key)
                        = eval_jq(Get(action, sec).d[key], data)]_vars

\* the units a run has gone through completely, and the entries of a unit
EntriesOf(u) == {i \in 1..Len(log) : log[i].u = u}
Completed(u) ==
    /\ Cardinality(EntriesOf(u)) = Len(FileFlow(u))
    /\ \A i \in EntriesOf(u) : log[i].done

FailFast ==
    [][/\ (error # "" /\ run' = run) =>
            (pc = "aborted" /\ UNCHANGED <<pc, data, cache, http, log, sent, unit, error>>)
       /\ (error = "" /\ error' # "") =>
            /\ pc' = "aborted"
            /\ \A i \in 1..Len(log) : log[i].wrote =>
                    cache'[<<log[i].u, log[i].x>>] = cache[<<log[i].u, log[i].x>>]]_vars

\* C7 witness: the fetch of u1's second action failed after the first action's
\* cache file was written, with a later unit still to run
FailFastWitness ==
    /\ error = "HTTPStatusError" /\ pc = "aborted" /\ uidx = 1 /\ idx = 2
    /\ log[1].wrote /\ cache[<<"u1", "a">>].exists /\ ~cache[<<"u1", "b">>].exists

\* C8 as stated: every action executed has had exactly one write to its data
\* entry when it is complete.
SingleWrite ==
    \A i \in 1..Len(log) : log[i].done => log[i].writes = 1

\* C8 amended: a restored action has had exactly one write; a fetched action
\* has had one write per page received (page 0 assigns, each later page
\* updates in place).
WritePerPage ==
    \A i \in 1..Len(log) : log[i].done =>
        log[i].writes = IF log[i].path = "restore" THEN 1 ELSE log[i].reqs

\* C8 witness: an action fetched in two pages is complete, after two writes
WritePerPageWitness ==
    \E i \in 1..Len(log) : log[i].done /\ log[i].reqs = 2 /\ log[i].writes = 2

ConfigReadOnly ==
    pc \in {"check", "fetch", "save"} => unit = reveal(load_unit(name, cfg), Secrets)

\* the unit as init() yielded it, before any fetch() of the run
Loaded == reveal(load_unit(name, cfg), Secrets)
\* the Api defaults of a section overlaid with the action's own overrides
Overlay(api, act, field) ==
    Update(IF Has(api, field) THEN Get(api, field) ELSE Dict(EmptyDict),
           IF Has(act, field) THEN Get(act, field) ELSE Dict(EmptyDict))

\* C11 as stated: the params and the headers of the first request of every
\* fetched action are the unit's Api defaults overlaid with the action's own
\* overrides (resolved on data as it is then), whatever was fetched before: no
\* key or value of another action's overrides appears.
RequestBuilding ==
    [][(pc = "fetch" /\ Len(sent) = 0 /\ Len(sent') = 1) =>
        \A field \in {"params", "headers"} :
            LET api == Get(Loaded, "api")
                act == Get(Get(Loaded, "action"), action_id)
            IN IF Has(api, field) \/ Has(act, field)
               THEN /\ Has(sent'[1], field)
                    /\ Get(sent'[1], field) = prepare(Overlay(api, act, field), data)
               ELSE ~Has(sent'[1], field)]_vars

RECURSIVE Marked(_, _)
\* does a string leaf that contains the marker sit anywhere in the value
Marked(v, marker) ==
    \/ IsStr(v) /\ Contains(v.s, marker)
    \/ IsDict(v) /\ \E key \in DOMAIN v.d : Marked(v.d[key], marker)
    \/ IsList(v) /\ \E i \in 1..Len(v.l) : Marked(v.l[i], marker)
\* the units whose file has a secret path that the secret store lacks
Unloadable == {u \in UnitNames : Raises(reveal(load_unit(u, cfg), Secrets))}

\* C12: a unit is executed only with its secrets resolved: while its actions
\* are checked, fetched and saved, the unit and every request built or sent
\* hold no marked leaf, and the leaves written `!secret a.b` hold "X", the
\* value of the store {a: {b: "X"}}. A unit with a secret path that the store
\* lacks is never yielded: the run ends with the exception at its load, the
\* unit of the program is never one of its (partly substituted) forms and no
\* action of it is restored or fetched.
SecretResolution ==
    /\ pc \in {"check", "fetch", "save"} =>
        /\ ~Marked(unit, _MAGIC_SECRET)
        /\ name \notin Unloadable
        /\ name = "u1" => Get(Get(Get(unit, "api"), "params"), "key") = Word("X")
        /\ name = "u2" => Get(Get(Get(unit, "api"), "headers"), "auth") = Word("X")
        /\ ~Marked(request, _MAGIC_SECRET)
        /\ \A i \in 1..Len(sent) : ~Marked(sent[i], _MAGIC_SECRET)
    /\ \A u \in Unloadable :
        /\ \A i \in 1..Len(log) : log[i].u # u
        /\ \A x \in ActionIds : ~cache[<<u, x>>].exists
        /\ unit # Null => Get(Get(unit, "api"), "base") # Get(Get(UnitFile(u, cfg), "api"), "base")
        /\ Units[uidx] = u => (pc \in {"load", "aborted"} /\ (pc = "aborted" => error = "KeyError"))

\* C12 witness: u1 was run through with its key resolved to "X", then the load
\* of u2, whose secret path a.c the store lacks, ended the run
SecretResolutionWitness ==
    /\ Unloadable = {"u2"} /\ Units[uidx] = "u2" /\ pc = "aborted" /\ error = "KeyError"
    /\ Completed("u1") /\ \E i \in 1..Len(log) : log[i].path = "fetch" /\ log[i].reqs >= 1
    /\ Get(Get(Get(unit, "api"), "params"), "key") = Word("X")

\* the results of the two queries of WalkLeaves on a store, read off the store
QueryResults(leaf, store) ==
    IF leaf = ItemsOfA THEN Get(store["a"], "items").l ELSE <<Get(store["a"], "total")>>
\* the unwrap law: one result is the result itself, any other number of
\* results is the sequence; a string that does not begin with the marker stays
Unwrapped(leaf, store) ==
    IF leaf \in {ItemsOfA, TotalOfA}
    THEN LET r == QueryResults(leaf, store)
         IN IF Len(r) = 1 THEN r[1] ELSE List(r)
    ELSE leaf

\* C13: what prepare() returns has, at the place of every leaf, the leaf
\* unwrapped: an expression with exactly one result v has become v, one with
\* zero or with two or more results has become the sequence of its results,
\* and a leaf that does not begin with the expression marker is unchanged.
UnwrapLaw ==
    pc = "prepared" =>
        \A v \in WalkLeaves :
            /\ request = InDict(v) => sent[1] = InDict(Unwrapped(v, data))
            /\ request = InList(v) => sent[1] = InList(Unwrapped(v, data))
            /\ request = Nested(v) => sent[1] = Nested(Unwrapped(v, data))

\* C13 witness: `!jq .a.items[]` was prepared on a store whose a.items is
\* empty, and the leaf has become the empty sequence
UnwrapLawWitness ==
    /\ pc = "prepared" /\ request = Nested(ItemsOfA)
    /\ Get(data["a"], "items") = List(<<>>)
    /\ sent[1] = Nested(List(<<>>))

\* the pagination spec as the unit file has it
FilePag == Get(FileAction(name, action_id), "paginate")

\* C14: in every pass of a paginated fetch the action still holds the
\* pagination spec as written, and the bound that decides whether the loop
\* goes on is the spec's max resolved on data as it is in that pass, page 0's
\* result included from the first pass on: when that value is a number the
\* pass ends the fetch exactly if the new page index has reached it, and
\* when it is none the pass raises.
PaginationReResolved ==
    [][(pc = "fetch" /\ Has(action, "paginate") /\ Len(sent') = Len(sent) + 1
            /\ error' \notin {"HTTPStatusError", "KeyError"}) =>
        LET visible == IF page_index = 0 THEN data' ELSE data
            max == eval_jq(Get(FilePag, "max"), visible)
        IN /\ PagOf = FilePag /\ PagOf' = FilePag
           /\ action_id \in DOMAIN visible
           /\ IF IsInt(max)
              THEN error' = "" /\ (pc' = "save" <=> page_index' >= max.n)
              ELSE error' = "TypeError"]_vars

\* C14 witness: max is `!jq .a.total`; page 0 said total 2, so the fetch went
\* on after page 0 and ended after the second page
PaginationReResolvedWitness ==
    /\ pc = "save" /\ Has(action, "paginate") /\ Get(PagOf, "max") = TotalOfA
    /\ IncOf = 1 /\ Len(pages) = 2 /\ Get(pages[1], "total") = Num(2)

\* C15: every step taken while an action X of a unit is executed (its cache
\* check, its restore, each pass of its fetch, its save) leaves the data entry
\* of every other action-id as it was, present or absent, and leaves every
\* cache file other than the one of (unit, X) as it was; the steps between
\* actions change neither data nor any cache file.
SingleWriter ==
    [][run' = run =>
        IF pc \in {"check", "fetch", "save"}
        THEN /\ \A y \in ActionIds \ {action_id} :
                    /\ y \in DOMAIN data' <=> y \in DOMAIN data
                    /\ y \in DOMAIN data => data'[y] = data[y]
             /\ \A f \in DOMAIN cache : f # outfile => cache'[f] = cache[f]
        ELSE UNCHANGED <<data, cache>>]_vars

\* C15 witness: b of u2 has been fetched and is about to be saved, while data
\* holds a and the files of u1 exist
SingleWriterWitness ==
    /\ pc = "save" /\ name = "u2" /\ action_id = "b"
    /\ DOMAIN data = {"a", "b"}
    /\ cache[<<"u1", "a">>].exists /\ cache[<<"u1", "b">>].exists
    /\ ~cache[<<"u2", "b">>].exists

\* the run was ended by an exception raised inside fetch() for the current action
FetchFailed ==
    /\ pc = "aborted" /\ error \notin {"", "OSError"}
    /\ Len(log) >= 1 /\ Last(log).path = "fetch" /\ ~Last(log).done
    /\ Last(log).u = name /\ Last(log).x = action_id

\* C16: no pass of a fetch, failing or not, touches a cache file, and after a
\* fetch of X has failed the file of X is what it was before the fetch (absent,
\* or with its content and modification time) up to and into the next run,
\* where it is absent or still older than X's maxage, so that X is fetched
\* again; and every fetch starts at page index 0 with a request that carries
\* no page parameter.
NoPartialCheckpoint ==
    [][/\ pc = "fetch" => cache' = cache
       /\ FetchFailed =>
            /\ cache' = cache
            /\ cache[outfile].exists = Last(log).existed
            /\ Last(log).existed => now - cache[outfile].mtime = Last(log).age
            /\ run' = run + 1 =>
                    \/ ~cache'[outfile].exists
                    \/ now' - cache'[outfile].mtime > Threshold(name, action_id)
       /\ (pc = "check" /\ pc' = "fetch") =>
            /\ page_index' = 0 /\ sent' = <<>>
            /\ Has(action, "paginate") =>
                    ~(Has(request', "params") /\ Has(Get(request', "params"), PageParam))
      ]_vars

\* C16 witness: in the second run the stale file of a was to be replaced; page
\* 0 arrived and is in data, the second request failed, and the file is
\* still the one the first run wrote
NoPartialCheckpointWitness ==
    /\ FetchFailed /\ run = 2 /\ error = "HTTPStatusError"
    /\ action_id = "a" /\ Last(log).existed /\ Last(log).reqs = 2
    /\ "a" \in DOMAIN data /\ data["a"] # json_load(cache[outfile].content)
    /\ cache[outfile].exists /\ cache[outfile].mtime = 0

\* C17 as stated, in the form a finite run refutes: the loop of fetch() ends
\* for every pagination spec, whatever its increment. Then no pass that stays
\* in the loop leaves everything the loop reads (page index, request, data) as
\* it was, for with the same response again that pass repeats forever; and
\* under a max written as a number no such pass leaves the page index where
\* it was or below, for increment and max stay the same in every later pass.
FetchTerminates ==
    [][(pc = "fetch" /\ pc' = "fetch" /\ Len(sent') = Len(sent) + 1) =>
        /\ <<page_index', request', data'>> # <<page_index, request, data>>
        /\ IsInt(Get(PagOf, "max")) => page_index' > page_index]_vars

\* C18 as stated: whenever an action of a unit resolves its templates, data
\* holds entries only for the actions completed earlier in this unit's flow
\* and for the action itself; no entry written while an earlier unit was
\* executed is there.
VisibleOwnPast ==
    pc \in {"fetch", "save"} =>
        DOMAIN data \subseteq {log[i].x : i \in DoneHere} \cup {action_id}

\* C19: a cache file changes only when a completed fetch is saved, and then
\* it is the file of the action fetched and its modification time is the time
\* of that run; a restore leaves every file, modification times included, as
\* it was. So at every cache check of an action whose file was written at t0,
\* with threshold M, the action is restored without a request if the time is
\* at most t0 + M and is fetched if it is later, and is fetched when it has
\* no file.
RestoreKeepsAge ==
    [][/\ cache' # cache =>
            /\ pc = "save" /\ Last(log).path = "fetch" /\ error' = ""
            /\ \A f \in DOMAIN cache : f # outfile => cache'[f] = cache[f]
            /\ cache'[outfile].exists /\ cache'[outfile].mtime = now
       /\ (pc = "check" /\ Known) =>
            LET t0 == cache[outfile].mtime
                M == Threshold(name, action_id)
            IN IF cache[outfile].exists /\ now <= t0 + M
               THEN /\ Len(log') = Len(log) + 1 /\ Last(log').path = "restore"
                    /\ cache' = cache /\ http' = http /\ pc' # "fetch"
               ELSE /\ Len(log') = Len(log) + 1 /\ Last(log').path = "fetch"
                    /\ pc' = "fetch" /\ page_index' = 0
      ]_vars

\* C19 witness: a has maxage 1 and its file was written at time 0; the second
\* run, at time 1, found it at the threshold and restored it, and the third
\* run, at time 2, finds it as old as 2 and fetches a again
RestoreKeepsAgeWitness ==
    /\ run = 3 /\ now = 2 /\ pc = "fetch"
    /\ name = "u1" /\ action_id = "a" /\ Threshold("u1", "a") = 1
    /\ Last(log).path = "fetch" /\ Last(log).existed /\ Last(log).age = 2
    /\ cache[<<"u1", "a">>].mtime = 0

\* no string leaf of the value contains either marker
Unmarked(v) == ~Marked(v, _MAGIC_SECRET) /\ ~Marked(v, _MAGIC_JQ)

\* C20 as stated: reveal() and prepare() leave the value passed in as it was,
\* and for a value without marked leaf (an object, an array or a scalar) each
\* returns a value equal to it.
WalkerIdentity ==
    [][pc = "walk" =>
        /\ request' = request
        /\ Unmarked(request) =>
            /\ pc' = "revealed" => unit' = request
            /\ pc' = "prepared" => sent' = <<request>>]_vars
====
